---- MODULE Spec2Model ----
(***************************************************************************)
(* Model of context_manager: the hook protocol of SyncWrapContext          *)
(* (run_sync, run_async) and of AsyncWrapContext (run), the CallerContext  *)
(* carrier, and the attribute macros wrap / async_wrap that rewrite a      *)
(* function into a call of the protocol.                                   *)
(***************************************************************************)
EXTENDS Integers, Sequences, FiniteSets, TLC

\* ------------------------------------------------------------------ bounds
MaxCalls == 2       \* calls of the entry points made in one behaviour
MaxThreads == 2     \* threads that can execute calls at the same time
MaxSuspend == 1     \* suspension points taken by one body
UsizeMax == 3       \* the largest usize of the model (usize::MAX, scaled down)
MaxResult == 2      \* the largest value a body returns

Calls == 1..MaxCalls
Usize == 0..UsizeMax
Results == 0..MaxResult
NoVal == UsizeMax + 1
NoInst == <<0, 0>>
FnNames == {"foo", "bar"}
NoName == "-"

\* The three entry points of the protocol.
Kinds == {"run_sync", "run_async", "run"}
AsyncKinds == {"run_async", "run"}

\* The context types a call can be made with: one that keeps the default
\* hooks, the counter context of the unit tests, and one whose hooks can fail.
CtxTypes == {"Default", "Counter", "Failing"}

VARIABLES
    ctxType,    \* the context type (Self) the calls are made with
    VALUE,      \* the shared counter of the unit tests (static AtomicUsize)
    pc,         \* pc[c]: where call c is in the entry point's code
    kind,       \* kind[c]: the entry point call c entered
    cc,         \* cc[c]: fn_name of the caller_context argument
    ctx,        \* ctx[c]: the local `context`, an instance id or NoInst
    result,     \* result[c]: the local `result`
    produced,   \* produced[c]: the value the block evaluated to
    ret,        \* ret[c]: the value the call returned
    panicOut,   \* panicOut[c]: the panic the caller of call c observes
    susp,       \* susp[c]: suspensions the body of call c has taken
    seen,       \* seen[c]: the values of VALUE the body of call c loaded
    trace,      \* trace[c]: the hook invocations of call c, in order
    live,       \* context instances that exist (created and not dropped)
    consumed,   \* context instances that were moved into after
    pred,       \* pred[c]: the calls that had ended when call c was made
    item,       \* macro input: the annotated function and the attribute
    emitted,    \* macro output: the token stream the macro returned
    build       \* result of compiling the macro output

rtVars == <<ctxType, VALUE, pc, kind, cc, ctx, result, produced, ret, panicOut,
            susp, seen, trace, live, consumed, pred>>
macroVars == <<item, emitted, build>>
vars == <<ctxType, VALUE, pc, kind, cc, ctx, result, produced, ret, panicOut,
          susp, seen, trace, live, consumed, pred, item, emitted, build>>

\* ------------------------------------------------------- protocol: helpers
RunningPCs == {"new", "before", "body", "after", "ret"}
WaitPCs == {"new_wait", "before_wait", "body_wait", "after_wait"}
EndPCs == {"done", "panicked", "cancelled"}
NoPanic == "none"

\* A thread is free to start or resume a call.
ThreadFree == Cardinality({c \in Calls : pc[c] \in RunningPCs}) < MaxThreads

Event(ev, inst, fn, val) == [ev |-> ev, inst |-> inst, fn |-> fn, val |-> val]

Count(s, ev) == Cardinality({k \in 1..Len(s) : s[k].ev = ev})

\* Variant: new hands out one instance that all calls share.
FreshInstance_Shared(c) == <<1, 1>>

\* Self::new() returns a value of its own: the n-th invocation made by call c
\* yields the instance <<c, n>>.
FreshInstance(c) == <<c, Count(trace[c], "new") + 1>>

\* CallerContext::new(fn_name) stores the name; fn_name() reads it back.
CallerContextNew(name) == [fn_name |-> name]

\* Variant: fn_name() answers with a fixed name.
fn_name_Fixed(callerContext) == "foo"

\* CallerContext::fn_name
fn_name(callerContext) == callerContext.fn_name

\* The instance call c holds: in its local `context`, or inside a suspended
\* after, into which the local was moved.
HeldBy(c) ==
    IF ctx[c] # NoInst THEN {ctx[c]}
    ELSE IF pc[c] = "after_wait" THEN {trace[c][Len(trace[c])].inst}
    ELSE {}

\* Variant: the entry point catches the panic and hides it from the caller.
Propagate_Suppressed(payload) == NoPanic

\* No catch_unwind surrounds any step of the entry points: the payload the
\* caller observes is the payload that was raised.
Propagate(payload) == payload

\* A panic at `site` unwinds call c: its locals are dropped, nothing else runs.
Unwind(c, site) ==
    /\ pc' = [pc EXCEPT ![c] = "panicked"]
    /\ panicOut' = [panicOut EXCEPT ![c] = Propagate(site)]
    /\ live' = live \ HeldBy(c)
    /\ ctx' = [ctx EXCEPT ![c] = NoInst]

\* The hooks of the context types.  Default keeps the trait's empty hooks;
\* Counter is the context of the unit tests; Failing has hooks that can panic.
HookCanFail == ctxType = "Failing"

\* Variant: before leaves the counter as it is.
BeforeStore_NoReset(v) == v

\* VALUE.store(0, Ordering::Relaxed) in before of the counter context.
BeforeStore(v) == IF ctxType = "Counter" THEN 0 ELSE v
\* VALUE.store(2 * (*result), Ordering::Relaxed) in after of the counter
\* context.  2 * result is computed in usize: beyond usize::MAX it wraps
\* (no overflow checks) or panics (overflow checks); either can be the build.
Doubled(r) == 2 * r
AfterOverflows(r) == ctxType = "Counter" /\ Doubled(r) > UsizeMax
AfterStore(v, r) == IF ctxType = "Counter" THEN Doubled(r) % (UsizeMax + 1) ELSE v

\* The first step of a body marks its start in the trace.
BodyMark(c) ==
    IF susp[c] = 0
    THEN Append(trace[c], Event("body", NoInst, NoName, NoVal))
    ELSE trace[c]

\* Variant: the body is entered right after new, before is skipped.
StepAfter_SkipBefore(site) ==
    CASE site = "new" -> "body"
      [] site = "before" -> "body"
      [] site = "body" -> "after"
      [] site = "after" -> "ret"

\* The statements of the entry points run in program order:
\*   let context = Self::new(); context.before(..); let result = block();
\*   context.after(.., &result); result
StepAfter(site) ==
    CASE site = "new" -> "before"
      [] site = "before" -> "body"
      [] site = "body" -> "after"
      [] site = "after" -> "ret"

\* Variant: a body that is polled again starts over from before.
ResumePoint_Restart(w) ==
    CASE w = "new_wait" -> StepAfter("new")
      [] w = "before_wait" -> StepAfter("before")
      [] w = "body_wait" -> "before"
      [] w = "after_wait" -> StepAfter("after")

\* Variant: a future that is polled again stays where it was suspended.
ResumePoint_Stuck(w) == w

\* A suspended .await that is polled again continues where it stopped: the
\* hook that was suspended completes, a suspended body goes on.
ResumePoint(w) ==
    CASE w = "new_wait" -> StepAfter("new")
      [] w = "before_wait" -> StepAfter("before")
      [] w = "body_wait" -> "body"
      [] w = "after_wait" -> StepAfter("after")

\* Variant: the entry point returns what after left in the counter.
ReturnValue_FromCounter(c) == VALUE

\* The tail expression of the entry points: the local `result`.
ReturnValue(c) == result[c]

\* Variant: after borrows the instance, the local stays usable.
MovedOut_Borrowed(c) == ctx[c]

\* after(self, ..) takes the instance by value: the local `context` of the
\* entry point is moved from and cannot be used again.
MovedOut(c) == NoInst

\* Variant: a drop guard invokes after when the future is dropped.
OnDrop_RunsAfter(c) ==
    Append(trace[c], Event("after", NoInst, fn_name(cc[c]), result[c]))

\* Dropping the future of a call runs no hook: the entry points install no
\* guard and the traits require no Drop.
OnDrop(c) == trace[c]

\* Variant: the entry point hands its result back before after has run.
Ended_BeforeAfter(c) == pc[c] \in EndPCs \cup {"after"}

\* Call c is over for its caller: it returned, panicked or was dropped.
Ended(c) == pc[c] \in EndPCs

\* Variant: the hooks of run_async are awaited like those of run.
HookCanSuspend_AnyAsync(c) == kind[c] \in AsyncKinds

\* Only run awaits its hooks (Self::new().await, .before(..).await,
\* .after(..).await); run_sync and run_async call them as plain functions.
HookCanSuspend(c) == kind[c] = "run"

\* Variant: an async entry point starts running when it is called.
EntryPc_Eager(k) == "new"

\* run_sync is a plain function: calling it executes its first statement.
\* run_async and run are async fns: calling them only builds the future.
EntryPc(k) == IF k = "run_sync" THEN "new" ELSE "created"

\* ------------------------------------------------------ protocol: actions
\* A caller makes call c of entry point k with CallerContext::new(name).
\* run_sync runs on the caller's thread at once; the async entry points
\* only build a future.
MakeCall(c, k, name) ==
    /\ UNCHANGED macroVars
    /\ pc[c] = "idle"
    /\ \A d \in Calls : d < c => pc[d] # "idle"
    /\ k = "run_sync" => ThreadFree
    /\ pc' = [pc EXCEPT ![c] = EntryPc(k)]
    /\ kind' = [kind EXCEPT ![c] = k]
    /\ cc' = [cc EXCEPT ![c] = CallerContextNew(name)]
    /\ pred' = [pred EXCEPT ![c] = {d \in Calls : Ended(d)}]
    /\ UNCHANGED <<ctxType, VALUE, ctx, result, produced, ret, panicOut, susp,
                   seen, trace, live, consumed>>

\* The executor polls the future of call c for the first time.
FirstPoll(c) ==
    /\ UNCHANGED macroVars
    /\ pc[c] = "created"
    /\ ThreadFree
    /\ pc' = [pc EXCEPT ![c] = "new"]
    /\ UNCHANGED <<ctxType, VALUE, kind, cc, ctx, result, produced, ret,
                   panicOut, susp, seen, trace, live, consumed, pred>>

\* let context = Self::new();            (run: Self::new().await)
InvokeNew(c) ==
    /\ UNCHANGED macroVars
    /\ pc[c] = "new"
    /\ trace' = [trace EXCEPT ![c] =
                    Append(@, Event("new", FreshInstance(c), NoName, NoVal))]
    /\ \/ /\ pc' = [pc EXCEPT ![c] = "before"]
          /\ ctx' = [ctx EXCEPT ![c] = FreshInstance(c)]
          /\ live' = live \cup {FreshInstance(c)}
          /\ UNCHANGED panicOut
       \/ /\ HookCanSuspend(c)
          /\ pc' = [pc EXCEPT ![c] = "new_wait"]
          /\ UNCHANGED <<ctx, live, panicOut>>
       \/ /\ HookCanFail
          /\ Unwind(c, "new")
    /\ UNCHANGED <<ctxType, VALUE, kind, cc, result, produced, ret, susp, seen,
                   consumed, pred>>

\* The suspended new() of run completes and yields the instance.
ResumeNew(c) ==
    /\ UNCHANGED macroVars
    /\ pc[c] = "new_wait"
    /\ ThreadFree
    /\ pc' = [pc EXCEPT ![c] = ResumePoint("new_wait")]
    /\ ctx' = [ctx EXCEPT ![c] = trace[c][Len(trace[c])].inst]
    /\ live' = live \cup {trace[c][Len(trace[c])].inst}
    /\ UNCHANGED <<ctxType, VALUE, kind, cc, result, produced, ret, panicOut,
                   susp, seen, trace, consumed, pred>>

\* context.before(&caller_context);      (run: .await)
InvokeBefore(c) ==
    /\ UNCHANGED macroVars
    /\ pc[c] = "before"
    /\ trace' = [trace EXCEPT ![c] =
                    Append(@, Event("before", ctx[c], fn_name(cc[c]), NoVal))]
    /\ \/ /\ pc' = [pc EXCEPT ![c] = StepAfter("before")]
          /\ VALUE' = BeforeStore(VALUE)
          /\ UNCHANGED <<ctx, live, panicOut>>
       \/ /\ HookCanSuspend(c)
          /\ pc' = [pc EXCEPT ![c] = "before_wait"]
          /\ VALUE' = BeforeStore(VALUE)
          /\ UNCHANGED <<ctx, live, panicOut>>
       \/ /\ HookCanFail
          /\ Unwind(c, "before")
          /\ UNCHANGED VALUE
    /\ UNCHANGED <<ctxType, kind, cc, result, produced, ret, susp, seen,
                   consumed, pred>>

\* The suspended before() of run completes.
ResumeBefore(c) ==
    /\ UNCHANGED macroVars
    /\ pc[c] = "before_wait"
    /\ ThreadFree
    /\ pc' = [pc EXCEPT ![c] = ResumePoint("before_wait")]
    /\ UNCHANGED <<ctxType, VALUE, kind, cc, ctx, result, produced, ret,
                   panicOut, susp, seen, trace, live, consumed, pred>>

\* block.await returns Pending: the body is suspended (async entry points).
BodySuspend(c) ==
    /\ UNCHANGED macroVars
    /\ pc[c] = "body"
    /\ kind[c] \in AsyncKinds
    /\ susp[c] < MaxSuspend
    /\ pc' = [pc EXCEPT ![c] = "body_wait"]
    /\ susp' = [susp EXCEPT ![c] = @ + 1]
    /\ seen' = [seen EXCEPT ![c] = @ \cup {VALUE}]
    /\ trace' = [trace EXCEPT ![c] = BodyMark(c)]
    /\ UNCHANGED <<ctxType, VALUE, kind, cc, ctx, result, produced, ret,
                   panicOut, live, consumed, pred>>

\* The executor polls the suspended body again.
ResumeBody(c) ==
    /\ UNCHANGED macroVars
    /\ pc[c] = "body_wait"
    /\ ThreadFree
    /\ pc' = [pc EXCEPT ![c] = ResumePoint("body_wait")]
    /\ UNCHANGED <<ctxType, VALUE, kind, cc, ctx, result, produced, ret,
                   panicOut, susp, seen, trace, live, consumed, pred>>

\* let result = block();                 (async: block.await is Ready)
BodyComplete(c, v) ==
    /\ UNCHANGED macroVars
    /\ pc[c] = "body"
    /\ pc' = [pc EXCEPT ![c] = StepAfter("body")]
    /\ produced' = [produced EXCEPT ![c] = v]
    /\ result' = [result EXCEPT ![c] = v]
    /\ seen' = [seen EXCEPT ![c] = @ \cup {VALUE}]
    /\ trace' = [trace EXCEPT ![c] = BodyMark(c)]
    /\ UNCHANGED <<ctxType, VALUE, kind, cc, ctx, ret, panicOut, susp, live,
                   consumed, pred>>

\* The body panics.
BodyPanic(c) ==
    /\ UNCHANGED macroVars
    /\ pc[c] = "body"
    /\ Unwind(c, "body")
    /\ seen' = [seen EXCEPT ![c] = @ \cup {VALUE}]
    /\ trace' = [trace EXCEPT ![c] = BodyMark(c)]
    /\ UNCHANGED <<ctxType, VALUE, kind, cc, result, produced, ret, susp,
                   consumed, pred>>

\* context.after(&caller_context, &result);   (run: .await)
\* `context` is moved into after and dropped when after ends.
InvokeAfter(c) ==
    /\ UNCHANGED macroVars
    /\ pc[c] = "after"
    /\ trace' = [trace EXCEPT ![c] =
                    Append(@, Event("after", ctx[c], fn_name(cc[c]), result[c]))]
    /\ consumed' = consumed \cup {ctx[c]}
    /\ \/ /\ pc' = [pc EXCEPT ![c] = StepAfter("after")]
          /\ VALUE' = AfterStore(VALUE, result[c])
          /\ ctx' = [ctx EXCEPT ![c] = MovedOut(c)]
          /\ live' = live \ {ctx[c]}
          /\ UNCHANGED panicOut
       \/ /\ HookCanSuspend(c)
          /\ pc' = [pc EXCEPT ![c] = "after_wait"]
          /\ VALUE' = AfterStore(VALUE, result[c])
          /\ ctx' = [ctx EXCEPT ![c] = MovedOut(c)]
          /\ UNCHANGED <<live, panicOut>>
       \/ /\ HookCanFail \/ AfterOverflows(result[c])
          /\ Unwind(c, "after")
          /\ UNCHANGED VALUE
    /\ UNCHANGED <<ctxType, kind, cc, result, produced, ret, susp, seen, pred>>

\* The suspended after() of run completes and drops the instance.
ResumeAfter(c) ==
    /\ UNCHANGED macroVars
    /\ pc[c] = "after_wait"
    /\ ThreadFree
    /\ pc' = [pc EXCEPT ![c] = ResumePoint("after_wait")]
    /\ live' = live \ HeldBy(c)
    /\ UNCHANGED <<ctxType, VALUE, kind, cc, ctx, result, produced, ret,
                   panicOut, susp, seen, trace, consumed, pred>>

\* result                                (the value of the entry point)
Return(c) ==
    /\ UNCHANGED macroVars
    /\ pc[c] = "ret"
    /\ pc' = [pc EXCEPT ![c] = "done"]
    /\ ret' = [ret EXCEPT ![c] = ReturnValue(c)]
    /\ trace' = [trace EXCEPT ![c] =
                    Append(@, Event("return", NoInst, NoName, ReturnValue(c)))]
    /\ UNCHANGED <<ctxType, VALUE, kind, cc, ctx, result, produced, panicOut,
                   susp, seen, live, consumed, pred>>

\* The future of a suspending call is dropped while it is not being polled:
\* its locals are dropped, none of its remaining code runs.
Cancel(c) ==
    /\ UNCHANGED macroVars
    /\ pc[c] \in WaitPCs \cup {"created"}
    /\ pc' = [pc EXCEPT ![c] = "cancelled"]
    /\ live' = live \ HeldBy(c)
    /\ ctx' = [ctx EXCEPT ![c] = NoInst]
    /\ trace' = [trace EXCEPT ![c] = OnDrop(c)]
    /\ UNCHANGED <<ctxType, VALUE, kind, cc, result, produced, ret, panicOut,
                   susp, seen, consumed, pred>>

\* ------------------------------------------------------ the attribute macros
MaxStmts == 2       \* statements in the body of an annotated function

StmtTexts == {"s1", "s2"}
SigShapes == {"<'a, T: Debug>(v: &'a T) -> String", "() -> usize"}
CtxTypeNames == {"SyncCtx", "AsyncCtx"}
AttrEmpty == ""
AttrMalformed == "?"
Attrs == CtxTypeNames \cup {AttrEmpty, AttrMalformed}

MsgExpectedType ==
    "Expected a type as argument: #[wrap(Type)] or #[async_wrap(Type)]"
MsgConstFn == "#[wrap] cannot operate on const functions."
MsgSyncFn ==
    "#[async_wrap] cannot operate on sync functions. Please consider using a #[wrap] macro or converting/wrapping the function to be async."
MsgSynType == "syn: expected a type"

\* Statements and expressions of a function body, as the macros build them.
Stmt(op, text, trait, ctxName, args, awaited) ==
    [op |-> op, text |-> text, trait |-> trait, ctxName |-> ctxName,
     args |-> args, awaited |-> awaited]
OrigStmt(text) == Stmt("stmt", text, "", "", <<>>, FALSE)
\* ::std::compile_error!("...");
CompileError(msg) == Stmt("compile_error", msg, "", "", <<>>, FALSE)
\* { ::std::compile_error!("...") }
CompileErrorBlock(msg) == Stmt("compile_error_block", msg, "", "", <<>>, FALSE)
\* <#context_type as ::context_manager::Trait<_>>::method(args) [.await]
ProtocolCall(trait, ctxName, method, args, awaited) ==
    Stmt("call", method, trait, ctxName, args, awaited)

Arg(form, name, stmts) == [form |-> form, name |-> name, stmts |-> stmts]
\* async #block
AsyncBlock(stmts) == Arg("async_block", "", stmts)
\* move || #block
MoveClosure(stmts) == Arg("move_closure", "", stmts)
\* CallerContext::new("name")
CallerContextArg(name) == Arg("caller_context", name, <<>>)

RECURSIVE SeqsUpTo(_, _)
SeqsUpTo(S, n) ==
    IF n = 0 THEN {<<>>}
    ELSE SeqsUpTo(S, n - 1) \cup
         {Append(q, x) : q \in {r \in SeqsUpTo(S, n - 1) : Len(r) = n - 1}, x \in S}

Bodies == {[k \in 1..Len(q) |-> OrigStmt(q[k])] : q \in SeqsUpTo(StmtTexts, MaxStmts)}

\* syn::ItemFn: the signature and the statements of the block.
FnAttrs == {"", "#[inline]"}
Visibilities == {"", "pub"}
ItemFns ==
    [attrs : FnAttrs, vis : Visibilities,
     sig : [name : FnNames, constness : BOOLEAN, asyncness : BOOLEAN,
            shape : SigShapes],
     stmts : Bodies]

NoFn == [attrs |-> "", vis |-> "",
         sig |-> [name |-> NoName, constness |-> FALSE, asyncness |-> FALSE,
                  shape |-> ""],
         stmts |-> <<>>]

\* What a macro returns: the function item, or the tokens of a parse error.
EmitFn(func) == [kind |-> "fn", func |-> func, msg |-> ""]
EmitError(msg) == [kind |-> "error", func |-> NoFn, msg |-> msg]

\* Variant: an empty argument is taken for a type.
ArgsParse_AcceptsEmpty(attr) ==
    IF attr = AttrMalformed THEN [ok |-> FALSE, context_type |-> "", msg |-> MsgSynType]
    ELSE [ok |-> TRUE, context_type |-> attr, msg |-> ""]

\* Args::parse
ArgsParse(attr) ==
    IF attr = AttrEmpty THEN [ok |-> FALSE, context_type |-> "", msg |-> MsgExpectedType]
    ELSE IF attr = AttrMalformed THEN [ok |-> FALSE, context_type |-> "", msg |-> MsgSynType]
    ELSE [ok |-> TRUE, context_type |-> attr, msg |-> ""]

\* Variant: the statement replaces the body instead of preceding it.
InsertFirst_Replaces(func, stmt) == [func EXCEPT !.stmts = <<stmt>>]

\* in_func.block.stmts.insert(0, stmt)
InsertFirst(func, stmt) == [func EXCEPT !.stmts = <<stmt>> \o @]

\* Variant: the function is emitted again without its visibility.
ReplaceStmts_DropsVis(func, stmts) == [func EXCEPT !.stmts = stmts, !.vis = ""]

\* in_func.block.stmts = stmts
ReplaceStmts(func, stmts) == [func EXCEPT !.stmts = stmts]

\* Variant: wrap does not look at asyncness and always calls run_sync.
wrap_IgnoresAsync(attr, in_func) ==
    IF in_func.sig.constness
    THEN EmitFn(InsertFirst(in_func, CompileError(MsgConstFn)))
    ELSE IF ~ArgsParse(attr).ok
    THEN EmitError(ArgsParse(attr).msg)
    ELSE EmitFn(ReplaceStmts(in_func,
            <<ProtocolCall("SyncWrapContext", ArgsParse(attr).context_type,
                           "run_sync", <<MoveClosure(in_func.stmts)>>, FALSE)>>))

\* #[wrap(attr)] on in_func
wrap(attr, in_func) ==
    IF in_func.sig.constness
    THEN EmitFn(InsertFirst(in_func, CompileError(MsgConstFn)))
    ELSE IF ~ArgsParse(attr).ok
    THEN EmitError(ArgsParse(attr).msg)
    ELSE IF in_func.sig.asyncness
    THEN EmitFn(ReplaceStmts(in_func,
            <<ProtocolCall("SyncWrapContext", ArgsParse(attr).context_type,
                           "run_async", <<AsyncBlock(in_func.stmts)>>, TRUE)>>))
    ELSE EmitFn(ReplaceStmts(in_func,
            <<ProtocolCall("SyncWrapContext", ArgsParse(attr).context_type,
                           "run_sync", <<MoveClosure(in_func.stmts)>>, FALSE)>>))

\* #[async_wrap(attr)] on in_func
async_wrap(attr, in_func) ==
    IF in_func.sig.constness
    THEN EmitFn(InsertFirst(in_func, CompileError(MsgConstFn)))
    ELSE IF ~ArgsParse(attr).ok
    THEN EmitError(ArgsParse(attr).msg)
    ELSE IF in_func.sig.asyncness
    THEN EmitFn(ReplaceStmts(in_func,
            <<ProtocolCall("AsyncWrapContext", ArgsParse(attr).context_type,
                           "run", <<AsyncBlock(in_func.stmts)>>, TRUE)>>))
    ELSE EmitFn(InsertFirst(in_func, CompileErrorBlock(MsgSyncFn)))

\* The parameters of the entry points, as the traits declare them.
Params(method) ==
    IF method = "run_sync" THEN <<"CallerContext", "FnOnce">>
    ELSE <<"CallerContext", "Future">>

\* The context types of the ui tests: Sync implements SyncWrapContext only,
\* Async implements AsyncWrapContext only.
Implements(ctxName, trait) ==
    \/ ctxName = "SyncCtx" /\ trait = "SyncWrapContext"
    \/ ctxName = "AsyncCtx" /\ trait = "AsyncWrapContext"

ArgType(arg) ==
    IF arg.form = "caller_context" THEN "CallerContext"
    ELSE IF arg.form = "move_closure" THEN "FnOnce"
    ELSE "Future"

\* The errors the compiler reports for one statement of a function.
StmtErrors(sig, st) ==
    IF st.op \in {"compile_error", "compile_error_block"} THEN {st.text}
    ELSE IF st.op = "call" THEN
        (IF Len(st.args) # Len(Params(st.text))
            THEN {"E0061: wrong number of arguments"}
         ELSE IF [k \in 1..Len(st.args) |-> ArgType(st.args[k])] # Params(st.text)
            THEN {"E0308: mismatched types"}
         ELSE {})
        \cup (IF Implements(st.ctxName, st.trait) THEN {}
              ELSE {"E0277: trait bound not satisfied"})
        \cup (IF st.awaited /\ ~sig.asyncness
              THEN {"E0728: await outside of async"} ELSE {})
    ELSE {}

\* The errors of building what a macro emitted; the build succeeds without any.
Diagnostics(e) ==
    IF e.kind = "error" THEN {e.msg}
    ELSE UNION {StmtErrors(e.func.sig, e.func.stmts[k]) : k \in 1..Len(e.func.stmts)}
         \cup (IF e.func.sig.constness /\ e.func.sig.asyncness
               THEN {"functions cannot be both const and async"} ELSE {})

NoItem == [macro |-> "none", attr |-> AttrEmpty, func |-> NoFn]
EmitNone == [kind |-> "none", func |-> NoFn, msg |-> ""]
NoBuild == [done |-> FALSE, errors |-> {}]

\* The compiler expands #[wrap(attr)] on the annotated function.
ExpandWrap ==
    /\ UNCHANGED rtVars
    /\ item.macro = "wrap"
    /\ emitted = EmitNone
    /\ emitted' = wrap(item.attr, item.func)
    /\ UNCHANGED <<item, build>>

\* The compiler expands #[async_wrap(attr)] on the annotated function.
ExpandAsyncWrap ==
    /\ UNCHANGED rtVars
    /\ item.macro = "async_wrap"
    /\ emitted = EmitNone
    /\ emitted' = async_wrap(item.attr, item.func)
    /\ UNCHANGED <<item, build>>

\* The compiler builds the emitted tokens.
Compile ==
    /\ UNCHANGED rtVars
    /\ emitted # EmitNone
    /\ ~build.done
    /\ build' = [done |-> TRUE, errors |-> Diagnostics(emitted)]
    /\ UNCHANGED <<item, emitted>>

\* ----------------------------------------------------------- protocol: spec
MacroIdle ==
    /\ item = NoItem
    /\ emitted = EmitNone
    /\ build = NoBuild

ProtocolIdle ==
    /\ pc = [c \in Calls |-> "idle"]
    /\ kind = [c \in Calls |-> "none"]
    /\ cc = [c \in Calls |-> CallerContextNew(NoName)]
    /\ ctx = [c \in Calls |-> NoInst]
    /\ result = [c \in Calls |-> NoVal]
    /\ produced = [c \in Calls |-> NoVal]
    /\ ret = [c \in Calls |-> NoVal]
    /\ panicOut = [c \in Calls |-> NoPanic]
    /\ susp = [c \in Calls |-> 0]
    /\ seen = [c \in Calls |-> {}]
    /\ trace = [c \in Calls |-> <<>>]
    /\ live = {}
    /\ consumed = {}
    /\ pred = [c \in Calls |-> {}]

Init ==
    /\ ctxType \in CtxTypes
    /\ VALUE \in Usize
    /\ ProtocolIdle
    /\ MacroIdle

Next ==
    \E c \in Calls :
          \/ \E k \in Kinds, name \in FnNames : MakeCall(c, k, name)
          \/ FirstPoll(c)
          \/ InvokeNew(c)
          \/ ResumeNew(c)
          \/ InvokeBefore(c)
          \/ ResumeBefore(c)
          \/ BodySuspend(c)
          \/ ResumeBody(c)
          \/ \E v \in Results : BodyComplete(c, v)
          \/ BodyPanic(c)
          \/ InvokeAfter(c)
          \/ ResumeAfter(c)
          \/ Return(c)
          \/ Cancel(c)

Spec == Init /\ [][Next]_vars

\* ------------------------------------------------------------- macros: spec
MacroInit ==
    /\ item \in [macro : {"wrap", "async_wrap"}, attr : Attrs, func : ItemFns]
    /\ emitted = EmitNone
    /\ build = NoBuild
    /\ ctxType = "Default"
    /\ VALUE = 0
    /\ ProtocolIdle

MacroNext ==
    \/ ExpandWrap
    \/ ExpandAsyncWrap
    \/ Compile

MacroSpec == MacroInit /\ [][MacroNext]_vars
\* ------------------------------------------------------------------ claims
EvNames(s) == [k \in 1..Len(s) |-> s[k].ev]
HookOrder == <<"new", "before", "body", "after", "return">>
IsPrefix(s, t) == Len(s) <= Len(t) /\ \A k \in 1..Len(s) : s[k] = t[k]

\* C1: a call of run_sync, run_async or run that ran to completion made its
\* steps in the order new, before, body, after, return, each exactly once.
C1_CompletedCallOrder ==
    \A c \in Calls : pc[c] = "done" => EvNames(trace[c]) = HookOrder

C1_Witness ==
    /\ pc[1] = "done" /\ kind[1] = "run_sync"
    /\ pc[2] = "done" /\ kind[2] = "run"

\* C2: the value a completed call returned is the value its body produced,
\* whatever the after hook did with the reference to it.
C2_Transparency ==
    \A c \in Calls : pc[c] = "done" => ret[c] = produced[c] /\ ret[c] \in Results

C2_Witness ==
    \E c \in Calls :
        /\ pc[c] = "done" /\ ctxType = "Counter"
        /\ produced[c] = 1 /\ ret[c] = 1 /\ VALUE = 2

\* Call c ran with no other call in flight: every other call ended before c
\* was made, or has not run a step.
RanAlone(c) == \A d \in Calls \ {c} : trace[d] = <<>> \/ d \in pred[c]
\* The same while c ran; calls made after c ended may have run since.
RanApart(c) ==
    \A d \in Calls \ {c} : trace[d] = <<>> \/ d \in pred[c] \/ c \in pred[d]

\* C3 as stated: with the counter context and no other call in flight, the
\* body only loads 0 from the counter, and once the call has returned the
\* counter is 2 * r for every body result r.
C3_CounterDoubled ==
    \A c \in Calls :
        ctxType = "Counter" =>
            /\ RanApart(c) => seen[c] \subseteq {0}
            /\ RanAlone(c) /\ pc[c] = "done" => VALUE = Doubled(produced[c])

\* C3 amended: the same for every body result r with 2 * r <= usize::MAX.
C3_CounterDoubledInRange ==
    \A c \in Calls :
        ctxType = "Counter" =>
            /\ RanApart(c) => seen[c] \subseteq {0}
            /\ RanAlone(c) /\ pc[c] = "done" /\ Doubled(produced[c]) <= UsizeMax
                    => VALUE = Doubled(produced[c])

C3_Witness ==
    /\ ctxType = "Counter"
    /\ pc[1] = "done" /\ produced[1] = 1 /\ VALUE = 2 /\ seen[1] = {0}
    /\ kind[1] = "run_async" /\ susp[1] = 1
    /\ pc[2] = "idle"
\* C4: every protocol call a macro generates has, as its first argument, a
\* CallerContext built from the name of the annotated function.
C4_CallerContextPassed ==
    emitted.kind = "fn" =>
        \A k \in 1..Len(emitted.func.stmts) :
            emitted.func.stmts[k].op = "call" =>
                /\ Len(emitted.func.stmts[k].args) >= 1
                /\ emitted.func.stmts[k].args[1] =
                        CallerContextArg(item.func.sig.name)

\* The trait a macro requires of its type argument.
RequiredTrait(macro) ==
    IF macro = "wrap" THEN "SyncWrapContext" ELSE "AsyncWrapContext"

\* C5: the build fails for a const function under either macro and for a
\* non-async function under async_wrap; it succeeds for every other function
\* whose type argument implements the required trait.
C5_RejectionInvariant ==
    build.done =>
        /\ item.func.sig.constness => build.errors # {}
        /\ item.macro = "async_wrap" /\ ~item.func.sig.asyncness
                => build.errors # {}
        /\ /\ ~item.func.sig.constness
           /\ item.macro = "wrap" \/ item.func.sig.asyncness
           /\ Implements(item.attr, RequiredTrait(item.macro))
           => build.errors = {}

InFlight(c) == pc[c] \notin {"idle", "created"} \cup EndPCs
HookEvents == {"new", "before", "after"}

\* C6: a call invokes new at most once, and once before any other hook; its
\* before and after hooks are invoked on the instance its own new returned;
\* two calls never have the same instance; an instance exists only while the
\* call that created it is in flight.
C6_OneInstancePerCall ==
    /\ \A c \in Calls :
          /\ Count(trace[c], "new") <= 1
          /\ trace[c] # <<>> => trace[c][1].ev = "new" /\ trace[c][1].inst # NoInst
          /\ \A k \in 1..Len(trace[c]) :
                trace[c][k].ev \in HookEvents => trace[c][k].inst = trace[c][1].inst
          /\ ctx[c] # NoInst => ctx[c] = trace[c][1].inst
    /\ \A c, d \in Calls :
          c # d /\ trace[c] # <<>> /\ trace[d] # <<>>
              => trace[c][1].inst # trace[d][1].inst
    /\ \A i \in live :
          \E c \in Calls : InFlight(c) /\ trace[c] # <<>> /\ trace[c][1].inst = i

C6_Witness ==
    /\ pc[1] = "body_wait" /\ ctx[1] # NoInst
    /\ pc[2] = "after" /\ ctx[2] # NoInst
    /\ Cardinality(live) = 2

\* C7: a call invokes after at most once; the instance after was invoked on
\* is held by no call any more, and the call invokes no hook on it afterwards.
C7_SingleUse ==
    /\ \A c \in Calls :
          /\ Count(trace[c], "after") <= 1
          /\ ctx[c] \notin consumed
          /\ \A k \in 1..Len(trace[c]) :
                trace[c][k].ev = "after" =>
                    /\ trace[c][k].inst \in consumed
                    /\ \A j \in (k + 1)..Len(trace[c]) :
                          trace[c][j].inst # trace[c][k].inst

C7_Witness ==
    \E c \in Calls :
        /\ pc[c] = "after_wait"
        /\ ctx[c] = NoInst
        /\ trace[c][1].inst \in consumed \cap live

PanicSites == {"new", "before", "body", "after"}
SiteIndex(site) == CHOOSE k \in 1..Len(HookOrder) : HookOrder[k] = site

\* C8: a call in which new, before, the body or after panicked hands that
\* panic to its caller, returns nothing, and ran no step after the one that
\* panicked.
C8_FailurePropagates ==
    \A c \in Calls :
        pc[c] = "panicked" =>
            /\ panicOut[c] \in PanicSites
            /\ EvNames(trace[c]) = SubSeq(HookOrder, 1, SiteIndex(panicOut[c]))
            /\ ret[c] = NoVal
            /\ ctx[c] = NoInst

C8_Witness ==
    /\ pc[1] = "panicked" /\ panicOut[1] = "before"
    /\ pc[2] = "panicked" /\ panicOut[2] = "after" /\ produced[2] = 1

\* Call c was cancelled while its body was suspended.
CancelledInBody(c) ==
    pc[c] = "cancelled" /\ susp[c] > 0 /\ produced[c] = NoVal

\* C9: a suspending call cancelled while its body was suspended has run new
\* and before, never runs after and returns nothing.
C9_CancelSkipsAfter ==
    \A c \in Calls :
        CancelledInBody(c) =>
            /\ kind[c] \in AsyncKinds
            /\ EvNames(trace[c]) = <<"new", "before", "body">>
            /\ ret[c] = NoVal
            /\ trace[c][1].inst \notin consumed

C9_Witness ==
    /\ CancelledInBody(1) /\ kind[1] = "run_async"
    /\ CancelledInBody(2) /\ kind[2] = "run"

\* C10: with suspending calls interleaved at their suspension points, the
\* steps each call has made so far are always an initial part of new,
\* before, body, after, return.
C10_InterleavedOrder ==
    \A c \in Calls :
        kind[c] \in AsyncKinds => IsPrefix(EvNames(trace[c]), HookOrder)

C10_Witness ==
    /\ kind[1] = "run" /\ pc[1] = "body_wait"
    /\ kind[2] = "run_async" /\ pc[2] = "body_wait"
\* The macro ran and reached the rewrite of the body: the function is not
\* const, the argument parsed, and async_wrap was given an async function.
Accepted ==
    /\ emitted # EmitNone
    /\ ~item.func.sig.constness
    /\ ArgsParse(item.attr).ok
    /\ item.macro = "wrap" \/ item.func.sig.asyncness

BlockForms == {"async_block", "move_closure"}
BlockArgs(st) == {k \in 1..Len(st.args) : st.args[k].form \in BlockForms}
TheCall == emitted.func.stmts[1]

\* C11: an accepted function is emitted with one statement, a call of the
\* entry point its macro and asyncness select (wrap/async: awaited run_async
\* of SyncWrapContext with an async block; wrap/sync: run_sync with a move
\* closure; async_wrap/async: awaited run of AsyncWrapContext with an async
\* block), on the context type of the attribute, and the original body is the
\* one block of that call.
C11_ProtocolSelection ==
    Accepted =>
        /\ emitted.kind = "fn"
        /\ Len(emitted.func.stmts) = 1
        /\ TheCall.op = "call"
        /\ TheCall.ctxName = item.attr
        /\ TheCall.trait = RequiredTrait(item.macro)
        /\ TheCall.text =
              (IF item.macro = "async_wrap" THEN "run"
               ELSE IF item.func.sig.asyncness THEN "run_async" ELSE "run_sync")
        /\ TheCall.awaited = item.func.sig.asyncness
        /\ \E k \in 1..Len(TheCall.args) :
              /\ BlockArgs(TheCall) = {k}
              /\ TheCall.args[k] =
                    (IF item.func.sig.asyncness
                     THEN AsyncBlock(item.func.stmts)
                     ELSE MoveClosure(item.func.stmts))

C11_Witness ==
    /\ Accepted /\ item.macro = "wrap" /\ item.func.sig.asyncness
    /\ Len(item.func.stmts) = 2
    /\ TheCall.text = "run_async" /\ TheCall.awaited

\* C12: an accepted function is emitted with the attributes, visibility and
\* signature (name, const, async, generics, parameters, return type) of the
\* input; only its statements differ.
C12_SignaturePreserved ==
    Accepted =>
        /\ emitted.kind = "fn"
        /\ emitted.func.attrs = item.func.attrs
        /\ emitted.func.vis = item.func.vis
        /\ emitted.func.sig = item.func.sig
        /\ emitted.func.stmts # item.func.stmts

C12_Witness ==
    /\ Accepted
    /\ emitted.func.vis = "pub" /\ emitted.func.attrs = "#[inline]"
    /\ emitted.func.sig.shape = "<'a, T: Debug>(v: &'a T) -> String"
    /\ emitted.func.sig.name = "bar"

\* C13 as stated: with an absent argument either macro emits the error
\* "Expected a type as argument" and nothing else, whatever the function.
C13_AbsentArgumentFirst ==
    emitted # EmitNone /\ item.attr = AttrEmpty
        => emitted = EmitError(MsgExpectedType)

\* C13 amended: the same for every function that is not const (a const
\* function is answered with the const-function error before the argument
\* is parsed).
C13_AbsentArgumentNonConst ==
    emitted # EmitNone /\ item.attr = AttrEmpty /\ ~item.func.sig.constness
        => /\ emitted = EmitError(MsgExpectedType)
           /\ build.done => build.errors = {MsgExpectedType}

C13_Witness ==
    /\ item.attr = AttrEmpty /\ item.macro = "async_wrap"
    /\ ~item.func.sig.constness /\ ~item.func.sig.asyncness
    /\ build.done /\ build.errors = {MsgExpectedType}

\* The macro ran and took a rejection branch: the function is const, or it
\* is not async, async_wrap was applied and the argument parsed.
Rejected ==
    /\ emitted # EmitNone
    /\ \/ item.func.sig.constness
       \/ /\ item.macro = "async_wrap"
          /\ ~item.func.sig.asyncness
          /\ ArgsParse(item.attr).ok

DirectiveOps == {"compile_error", "compile_error_block"}

\* C16: on a rejection branch the emitted function is the input function
\* with one build-failure directive put before its statements: attributes,
\* visibility, signature and the original statements are as in the input, in
\* the same order, and no protocol call is generated.
C16_RejectionPrependsOnly ==
    Rejected =>
        /\ emitted.kind = "fn"
        /\ emitted.func.attrs = item.func.attrs
        /\ emitted.func.vis = item.func.vis
        /\ emitted.func.sig = item.func.sig
        /\ Len(emitted.func.stmts) = Len(item.func.stmts) + 1
        /\ emitted.func.stmts[1].op \in DirectiveOps
        /\ SubSeq(emitted.func.stmts, 2, Len(emitted.func.stmts)) = item.func.stmts
        /\ \A k \in 1..Len(emitted.func.stmts) :
              /\ emitted.func.stmts[k].op # "call"
              /\ emitted.func.stmts[k].op \in DirectiveOps => k = 1

C16_Witness ==
    /\ Rejected /\ item.macro = "async_wrap" /\ ~item.func.sig.constness
    /\ Len(item.func.stmts) = 2 /\ Len(emitted.func.stmts) = 3
    /\ emitted.func.stmts[1] = CompileErrorBlock(MsgSyncFn)

\* C14: a function wrapped, by wrap or by async_wrap, with a context type that
\* implements only new builds, and the one thing the emitted function does is
\* run the original statements through the entry point of that type, so that
\* it behaves as the unwrapped function does.
C14_DefaultContextTransparent ==
    /\ Accepted
    /\ Implements(item.attr, RequiredTrait(item.macro))
    /\ build.done
    => /\ build.errors = {}
       /\ \E k \in BlockArgs(TheCall) : TheCall.args[k].stmts = item.func.stmts

\* C15: a call that had ended when call c was made has all its events behind
\* it: it records no further event, and c has recorded none yet when it is
\* made; an earlier call that returned has the complete sequence new, before,
\* body, after, return.
C15_BackToBack ==
    /\ [](\A c \in Calls : \A d \in pred[c] :
              /\ Ended(d)
              /\ pc[d] = "done" => EvNames(trace[d]) = HookOrder)
    /\ [][\A c \in Calls : \A d \in pred'[c] :
              /\ trace'[d] = trace[d]
              /\ pc[c] = "idle" => trace'[c] = <<>>]_vars

C15_Witness ==
    /\ pred[2] = {1}
    /\ kind[1] = "run_sync" /\ kind[2] = "run_sync"
    /\ pc[1] = "done" /\ pc[2] = "done"
    /\ EvNames(trace[2]) = HookOrder

NamedEvents(c) ==
    {k \in 1..Len(trace[c]) : trace[c][k].ev \in {"before", "after"}}

\* C17: the CallerContext of a call is set when the call is made and never
\* changes afterwards; before and after both read from it the name that was
\* given to CallerContext::new.
C17_CallerContextStable ==
    /\ [](\A c \in Calls :
              /\ pc[c] # "idle" => cc[c].fn_name \in FnNames
              /\ \A k \in NamedEvents(c) : trace[c][k].fn = cc[c].fn_name)
    /\ [][\A c \in Calls : pc[c] # "idle" => cc'[c] = cc[c]]_vars

C17_Witness ==
    /\ pc[1] = "done" /\ cc[1] = CallerContextNew("bar")
    /\ {trace[1][k].ev : k \in NamedEvents(1)} = {"before", "after"}
    /\ \A k \in NamedEvents(1) : trace[1][k].fn = "bar"

HookWaitPCs == {"new_wait", "before_wait", "after_wait"}

\* C18: a run_async call that has been polled gives up its thread only while
\* its body is suspended: it is never suspended inside new, before or after,
\* and between two of its steps it is either still running, suspended in the
\* body, or over; the calls that hold a thread never outnumber the threads.
C18_HooksDoNotSuspend ==
    /\ [](/\ \A c \in Calls :
                kind[c] \in {"run_async", "run_sync"} => pc[c] \notin HookWaitPCs
          /\ \A c \in Calls : kind[c] = "run_sync" => pc[c] \notin WaitPCs
          /\ Cardinality({c \in Calls : pc[c] \in RunningPCs}) <= MaxThreads)
    /\ [][\A c \in Calls :
              kind[c] = "run_async" /\ pc[c] \in RunningPCs /\ pc'[c] # pc[c]
                  => pc'[c] \in RunningPCs \cup {"body_wait"} \cup EndPCs]_vars

\* run is suspended inside after while a run_async call is suspended in its
\* body.
C18_Witness ==
    /\ kind[1] = "run" /\ pc[1] = "after_wait"
    /\ kind[2] = "run_async" /\ pc[2] = "body_wait"

\* C19: making a call of run_async or run only creates it; a created call has
\* run no hook and no body, making it changes neither the counter nor the set
\* of instances, it reaches new only by being polled, and dropping it
\* unpolled leaves its trace empty and the counter as it was.
C19_LazyStart ==
    /\ [](\A c \in Calls :
              pc[c] = "created" =>
                  /\ kind[c] \in AsyncKinds
                  /\ trace[c] = <<>> /\ ctx[c] = NoInst
                  /\ produced[c] = NoVal /\ ret[c] = NoVal)
    /\ [][\A c \in Calls :
              /\ pc[c] = "idle" /\ kind'[c] \in AsyncKinds
                    => /\ pc'[c] = "created"
                       /\ trace' = trace /\ VALUE' = VALUE /\ live' = live
              /\ pc[c] = "created" /\ pc'[c] # "created"
                    => /\ pc'[c] \in {"new", "cancelled"}
                       /\ trace'[c] = <<>> /\ VALUE' = VALUE /\ live' = live
              /\ kind[c] \in AsyncKinds /\ trace[c] = <<>> /\ trace'[c] # <<>>
                    => pc[c] = "new"]_vars

C19_Witness ==
    /\ kind[1] = "run_async" /\ pc[1] = "cancelled" /\ trace[1] = <<>>
    /\ kind[2] = "run" /\ pc[2] = "created"

\* ------------------------------------------------------- protocol: fairness
\* The statements of an entry point that is running are executed, a body
\* that is being polled ends, and the executor polls again what is suspended.
\* Nothing obliges anybody to make a call, to poll a future for the first
\* time, to drop it, or a body to suspend or to panic.
Fairness ==
    \A c \in Calls :
        /\ WF_vars(InvokeNew(c))
        /\ WF_vars(ResumeNew(c))
        /\ WF_vars(InvokeBefore(c))
        /\ WF_vars(ResumeBefore(c))
        /\ WF_vars(ResumeBody(c))
        /\ WF_vars(\E v \in Results : BodyComplete(c, v))
        /\ WF_vars(InvokeAfter(c))
        /\ WF_vars(ResumeAfter(c))
        /\ WF_vars(Return(c))

LiveInit ==
    /\ ctxType \in CtxTypes
    /\ VALUE = 0
    /\ ProtocolIdle
    /\ MacroIdle

LiveSpec == LiveInit /\ [][Next]_vars /\ Fairness

\* C20: a call that has begun to run and that neither fails nor is dropped
\* eventually returns, after its after hook has run, the value its body
\* produced.
C20_Completion ==
    \A c \in Calls :
        [](pc[c] \notin {"panicked", "cancelled"}) =>
            ((pc[c] \notin {"idle", "created"}) ~>
                (/\ pc[c] = "done"
                 /\ EvNames(trace[c]) = HookOrder
                 /\ ret[c] = produced[c]))

C20_Witness ==
    /\ kind[1] = "run" /\ pc[1] = "done" /\ susp[1] = 1
    /\ kind[2] = "run_sync" /\ pc[2] = "done"
    /\ ctxType = "Counter"
====
